---- MODULE Spec2Model ----
\* State-machine model of the vbuilder CLI (src/cmd/root.go): command setup,
\* module-name resolution, build, service-descriptor generation and the
\* optional privileged installer.  Text is modelled as sequences of
\* characters (one-character strings); fixed template literals are kept as
\* single multi-character chunks.
EXTENDS Naturals, Integers, Sequences, FiniteSets, TLC

\* ---------------------------------------------------------------- bounds
MaxLines == 2        \* longest manifest (number of lines) explored
MaxArgs == 2         \* largest number of positional arguments explored

\* ------------------------------------------------------------ text helpers
Keyword == <<"m", "o", "d", "u", "l", "e">>

IsSpace(c) == c \in {" ", "\t"}

HasPrefixAnywhere(s, prefix) ==
  \E k \in 0..Len(s) :
     /\ k + Len(prefix) <= Len(s)
     /\ SubSeq(s, k + 1, k + Len(prefix)) = prefix

\* strings.HasPrefix
HasPrefix(s, prefix) ==
  /\ Len(s) >= Len(prefix)
  /\ SubSeq(s, 1, Len(prefix)) = prefix

RECURSIVE FieldsFrom(_, _, _)
FieldsFrom(s, i, cur) ==
  IF i > Len(s)
    THEN IF cur = <<>> THEN <<>> ELSE <<cur>>
    ELSE IF IsSpace(s[i])
           THEN IF cur = <<>>
                  THEN FieldsFrom(s, i + 1, <<>>)
                  ELSE <<cur>> \o FieldsFrom(s, i + 1, <<>>)
           ELSE FieldsFrom(s, i + 1, Append(cur, s[i]))

\* strings.Fields: split around runs of white space, no empty fields
Fields(s) == FieldsFrom(s, 1, <<>>)

RECURSIVE StripTrailingSlashes(_)
StripTrailingSlashes(p) ==
  IF p # <<>> /\ p[Len(p)] = "/"
    THEN StripTrailingSlashes(SubSeq(p, 1, Len(p) - 1))
    ELSE p

\* index of the last "/" of p, 0 when there is none
LastSlash(p) ==
  IF \E i \in 1..Len(p) : p[i] = "/"
    THEN CHOOSE i \in 1..Len(p) :
           /\ p[i] = "/"
           /\ \A j \in (i + 1)..Len(p) : p[j] # "/"
    ELSE 0

\* filepath.Base
Base(p) ==
  IF p = <<>>
    THEN <<".">>
    ELSE LET q == StripTrailingSlashes(p)
             r == SubSeq(q, LastSlash(q) + 1, Len(q))
         IN IF r = <<>> THEN <<"/">> ELSE r

RECURSIVE SplitFrom(_, _, _)
SplitFrom(p, i, cur) ==
  IF i > Len(p)
    THEN <<cur>>
    ELSE IF p[i] = "/"
           THEN <<cur>> \o SplitFrom(p, i + 1, <<>>)
           ELSE SplitFrom(p, i + 1, Append(cur, p[i]))

\* the "/"-separated elements of p, empty ones included
SplitPath(p) == SplitFrom(p, 1, <<>>)

IsAbs(p) == p # <<>> /\ p[1] = "/"

RECURSIVE CleanElems(_, _, _, _)
CleanElems(elems, i, rooted, out) ==
  IF i > Len(elems)
    THEN out
    ELSE LET e == elems[i] IN
         IF e = <<>> \/ e = <<".">>
           THEN CleanElems(elems, i + 1, rooted, out)
           ELSE IF e = <<".", ".">>
                  THEN IF out # <<>> /\ out[Len(out)] # <<".", ".">>
                         THEN CleanElems(elems, i + 1, rooted,
                                         SubSeq(out, 1, Len(out) - 1))
                         ELSE IF rooted
                                THEN CleanElems(elems, i + 1, rooted, out)
                                ELSE CleanElems(elems, i + 1, rooted,
                                                Append(out, e))
                  ELSE CleanElems(elems, i + 1, rooted, Append(out, e))

RECURSIVE JoinElems(_, _)
JoinElems(elems, i) ==
  IF i > Len(elems)
    THEN <<>>
    ELSE IF i = Len(elems)
           THEN elems[i]
           ELSE elems[i] \o <<"/">> \o JoinElems(elems, i + 1)

\* filepath.Clean
Clean(p) ==
  LET kept == CleanElems(SplitPath(p), 1, IsAbs(p), <<>>)
  IN IF IsAbs(p)
       THEN <<"/">> \o JoinElems(kept, 1)
       ELSE IF kept = <<>> THEN <<".">> ELSE JoinElems(kept, 1)

\* filepath.Join of two elements: empty elements are ignored, the rest is
\* joined with "/" and cleaned
Join(a, b) ==
  IF a = <<>> /\ b = <<>>
    THEN <<>>
    ELSE IF a = <<>>
           THEN Clean(b)
           ELSE IF b = <<>> THEN Clean(a) ELSE Clean(a \o <<"/">> \o b)

\* filepath.Dir
Dir(p) == Clean(SubSeq(p, 1, LastSlash(p)))

\* working directory of the process
Cwd == <<"/", "w">>

\* filepath.Abs when the working directory can be read
Abs(p) == IF IsAbs(p) THEN Clean(p) ELSE Join(Cwd, p)

\* fmt.Sprintf restricted to the %s verb; a format is a sequence of
\* pieces, each a literal chunk or the verb
Verb == <<"%s">>

RECURSIVE Sprintf(_, _)
Sprintf(format, args) ==
  IF format = <<>>
    THEN IF args = <<>> THEN <<>> ELSE <<"%!(EXTRA)">>
    ELSE IF format[1] = Verb
           THEN IF args = <<>>
                  THEN <<"%!s(MISSING)">> \o Sprintf(Tail(format), args)
                  ELSE args[1] \o Sprintf(Tail(format), Tail(args))
           ELSE format[1] \o Sprintf(Tail(format), args)

\* ------------------------------------------------------------------ inputs
\* manifest lines: "module a/b", " module c/d", "modulex e/f", "module",
\* "go 1" and "module<TAB>g"
LineModule == Keyword \o <<" ", "a", "/", "b">>
LineIndented == <<" ">> \o Keyword \o <<" ", "c", "/", "d">>
LineLonger == Keyword \o <<"x", " ", "e", "/", "f">>
LineBare == Keyword
LineOther == <<"g", "o", " ", "1">>
LineTab == Keyword \o <<"\t", "g">>

ManifestLines ==
  {LineModule, LineIndented, LineLonger, LineBare, LineOther, LineTab}

Manifests == UNION {[1..n -> ManifestLines] : n \in 0..MaxLines}

\* project paths given on the command line: "p" and "/q/"
ProjectPaths == {<<"p">>, <<"/", "q", "/">>}

ArgLists == UNION {[1..n -> ProjectPaths] : n \in 0..MaxArgs}

\* values of $USER: "u" and unset
Users == {<<"u">>, <<>>}

\* ----------------------------------------------------------- getModuleName
NoResult == [name |-> <<>>, err |-> "missing"]

RECURSIVE ScanLines(_, _, _)
\* the loop of lines 75-84 over the first n lines delivered by the scanner
ScanLines(lines, i, n) ==
  IF i > n
    THEN NoResult
    ELSE IF HasPrefix(lines[i], Keyword) /\ Len(Fields(lines[i])) >= 2
           THEN [name |-> Base(Fields(lines[i])[2]), err |-> "none"]
           ELSE ScanLines(lines, i + 1, n)

\* access: "ok", "missing" (os.Open fails) or "ioerr" (the scanner fails
\* after delivering errAfter lines)
getModuleName(lines, access, errAfter) ==
  IF access = "missing"
    THEN [name |-> <<>>, err |-> "open"]
    ELSE LET n == IF access = "ioerr" THEN errAfter ELSE Len(lines)
             r == ScanLines(lines, 1, n)
         IN IF r.err = "none"
              THEN r
              ELSE IF access = "ioerr"
                     THEN [name |-> <<>>, err |-> "scan"]
                     ELSE NoResult

\* ---------------------------------------------------------- buildGoProject
buildGoProject(projectPath, binaryName, runOk, getwdOk) ==
  LET binaryPath == Join(projectPath, binaryName)
  IN IF ~runOk
       THEN [path |-> <<>>, err |-> "run"]
       ELSE IF ~IsAbs(binaryPath) /\ ~getwdOk
              THEN [path |-> <<>>, err |-> "abs"]
              ELSE [path |-> Abs(binaryPath), err |-> "none"]

\* ----------------------------------------------------- generateServiceFile
Lit1 == "[Unit]\nDescription=vortex.studio/"
Lit2 == " Service\nAfter=network.target\n\n[Service]\nExecStart="
Lit3 == "\nRestart=always\nUser="
Lit4 == "\nWorkingDirectory="
Lit5 == "\nRestartSec=10\n\n[Install]\nWantedBy=multi-user.target\n"

ServiceTemplate ==
  << <<Lit1>>, Verb, <<Lit2>>, Verb, <<Lit3>>, Verb, <<Lit4>>, Verb,
     <<Lit5>> >>

ServiceArgsSwapped(binaryPathArg, serviceName, userEnv) ==
  <<serviceName, binaryPathArg, Dir(binaryPathArg), userEnv>>

\* the argument list of the Sprintf call, line 127
ServiceArgs(binaryPathArg, serviceName, userEnv) ==
  <<serviceName, binaryPathArg, userEnv, Dir(binaryPathArg)>>

\* the text handed to os.WriteFile
serviceContent(binaryPathArg, serviceName, userEnv) ==
  Sprintf(ServiceTemplate, ServiceArgs(binaryPathArg, serviceName, userEnv))

NoFile == [exists |-> FALSE, content |-> <<>>]
StaleFile == [exists |-> TRUE, content |-> <<"stale">>]

\* os.WriteFile(servicePath, content, 0644): "ok" writes the content,
\* "openfail" leaves the path as it was, "partial" leaves a truncated file
WriteFile(old, content, outcome) ==
  IF outcome = "ok"
    THEN [exists |-> TRUE, content |-> content]
    ELSE IF outcome = "partial"
           THEN [exists |-> TRUE, content |-> <<>>]
           ELSE old

WriteOutcomes == {"ok", "openfail", "partial"}

\* ------------------------------------------------------------------- state
VARIABLES pc, args, flagsOk, installFlag, manifest, access, errAfter, user,
          moduleName, resolveErr, binaryPath, buildErr, wrote, calls, log,
          binary, descriptor, unitFile, reloaded, enabled, started,
          exitStatus

vars == <<pc, args, flagsOk, installFlag, manifest, access, errAfter, user,
          moduleName, resolveErr, binaryPath, buildErr, wrote, calls, log,
          binary, descriptor, unitFile, reloaded, enabled, started,
          exitStatus>>

inputs == <<args, flagsOk, installFlag, manifest, access, errAfter, user>>

Init ==
  /\ pc = "Execute"
  /\ args \in ArgLists
  /\ flagsOk \in BOOLEAN
  /\ installFlag \in IF flagsOk THEN BOOLEAN ELSE {FALSE}
  /\ manifest \in Manifests
  /\ access \in {"ok", "missing", "ioerr"}
  /\ errAfter \in IF access = "ioerr" THEN 0..Len(manifest) ELSE {0}
  /\ user \in Users
  /\ moduleName = <<>>
  /\ resolveErr = "pending"
  /\ binaryPath = <<>>
  /\ buildErr = "pending"
  /\ wrote = "pending"
  /\ calls = <<>>
  /\ log = <<>>
  /\ binary = FALSE
  /\ descriptor \in {NoFile, StaleFile}
  /\ unitFile = NoFile
  /\ reloaded = FALSE
  /\ enabled = FALSE
  /\ started = FALSE
  /\ exitStatus = -1

Error(msg) == [level |-> "error", msg |-> msg]
Info(msg) == [level |-> "info", msg |-> msg]

Call(prog, op, ok) == [prog |-> prog, op |-> op, ok |-> ok]

\* ---------------------------------------------------------- control flow
\* lines 41-44
AfterResolveAlways(err) == "buildGoProject"

AfterResolve(err) == IF err # "none" THEN "return" ELSE "buildGoProject"

\* lines 49-52
AfterBuildRetry(err) ==
  IF err = "none"
    THEN "generateServiceFile"
    ELSE IF err = "run" THEN "buildGoProject" ELSE "return"

AfterBuild(err) == IF err # "none" THEN "return" ELSE "generateServiceFile"

\* lines 56-63: generateServiceFile returns nothing, only the flag decides
AfterGenerateAlways(flag, outcome) == "copy"

AfterGenerateChecked(flag, outcome) ==
  IF outcome # "ok" THEN "return" ELSE IF flag THEN "copy" ELSE "return"

AfterGenerate(flag, outcome) == IF flag THEN "copy" ELSE "return"

\* lines 140-175: each stage returns on error
AfterStageIgnoreCopy(stage, ok) ==
  IF stage = "cp"
    THEN "reload"
    ELSE IF ~ok
           THEN "return"
           ELSE IF stage = "daemon-reload"
                  THEN "enable"
                  ELSE IF stage = "enable" THEN "start" ELSE "return"

AfterStage(stage, ok) ==
  IF ~ok
    THEN "return"
    ELSE IF stage = "cp"
           THEN "reload"
           ELSE IF stage = "daemon-reload"
                  THEN "enable"
                  ELSE IF stage = "enable" THEN "start" ELSE "return"

\* sudo cp copies: the source stays where it is
CopySourceMoved(src) == NoFile

CopySource(src) == src

\* lines 25-30: only an error of rootCmd.Execute gives status 1, and Run
\* (line 22) cannot return one
ExitStatusStrict(setupErr, stepFailed) ==
  IF setupErr \/ stepFailed THEN 1 ELSE 0

ExitStatus(setupErr, stepFailed) == IF setupErr THEN 1 ELSE 0

StepFailed ==
  \/ resolveErr \in {"open", "scan", "missing"}
  \/ buildErr \in {"run", "abs"}
  \/ \E i \in 1..Len(calls) : ~calls[i].ok

\* cobra.ExactArgs(1) and flag parsing
SetupOk == flagsOk /\ Len(args) = 1

\* ----------------------------------------------------------------- actions
ExecuteFail ==
  /\ pc = "Execute"
  /\ ~SetupOk
  /\ log' = Append(log, Error("%v"))
  /\ exitStatus' = ExitStatus(TRUE, FALSE)
  /\ pc' = "exited"
  /\ UNCHANGED <<inputs, moduleName, resolveErr, binaryPath, buildErr, wrote,
                 calls, binary, descriptor, unitFile, reloaded, enabled,
                 started>>

ExecuteRun ==
  /\ pc = "Execute"
  /\ SetupOk
  /\ pc' = "getModuleName"
  /\ UNCHANGED <<inputs, moduleName, resolveErr, binaryPath, buildErr, wrote,
                 calls, log, binary, descriptor, unitFile, reloaded, enabled,
                 started, exitStatus>>

Resolve ==
  /\ pc = "getModuleName"
  /\ LET r == getModuleName(manifest, access, errAfter)
     IN /\ moduleName' = r.name
        /\ resolveErr' = r.err
        /\ log' = IF r.err # "none" THEN Append(log, Error("Error: %v"))
                                    ELSE log
        /\ pc' = AfterResolve(r.err)
  /\ UNCHANGED <<inputs, binaryPath, buildErr, wrote, calls, binary,
                 descriptor, unitFile, reloaded, enabled, started,
                 exitStatus>>

Build ==
  /\ pc = "buildGoProject"
  /\ \E runOk \in BOOLEAN, getwdOk \in BOOLEAN :
       LET r == buildGoProject(args[1], moduleName, runOk, getwdOk)
       IN /\ calls' = Append(calls, Call("go", "build", runOk))
          /\ binary' = (binary \/ runOk)
          /\ binaryPath' = r.path
          /\ buildErr' = r.err
          /\ log' = IF r.err # "none"
                      THEN Append(log,
                                  Error("Failed to build the Go project: %v"))
                      ELSE log
          /\ pc' = AfterBuild(r.err)
  /\ UNCHANGED <<inputs, moduleName, resolveErr, wrote, descriptor, unitFile,
                 reloaded, enabled, started, exitStatus>>

Generate ==
  /\ pc = "generateServiceFile"
  /\ \E outcome \in WriteOutcomes :
       /\ descriptor' = WriteFile(descriptor,
                                  serviceContent(binaryPath, moduleName, user),
                                  outcome)
       /\ wrote' = outcome
       /\ pc' = AfterGenerate(installFlag, outcome)
  /\ log' = Append(log, Info("Service file created at: %v"))
  /\ UNCHANGED <<inputs, moduleName, resolveErr, binaryPath, buildErr, calls,
                 binary, unitFile, reloaded, enabled, started, exitStatus>>

Copy ==
  /\ pc = "copy"
  /\ \E ok \in IF descriptor.exists THEN BOOLEAN ELSE {FALSE} :
       /\ calls' = Append(calls, Call("sudo", "cp", ok))
       /\ unitFile' = IF ok THEN descriptor ELSE unitFile
       /\ descriptor' = IF ok THEN CopySource(descriptor) ELSE descriptor
       /\ log' = Append(log,
                        IF ok
                          THEN Info("Service file copied to: %v")
                          ELSE Error("Failed to copy service file to systemd: %v"))
       /\ pc' = AfterStage("cp", ok)
  /\ UNCHANGED <<inputs, moduleName, resolveErr, binaryPath, buildErr, wrote,
                 binary, reloaded, enabled, started, exitStatus>>

Reload ==
  /\ pc = "reload"
  /\ \E ok \in BOOLEAN :
       /\ calls' = Append(calls, Call("sudo", "daemon-reload", ok))
       /\ reloaded' = (reloaded \/ ok)
       /\ log' = IF ok
                   THEN log
                   ELSE Append(log,
                               Error("Failed to reload systemd daemon: %v"))
       /\ pc' = AfterStage("daemon-reload", ok)
  /\ UNCHANGED <<inputs, moduleName, resolveErr, binaryPath, buildErr, wrote,
                 binary, descriptor, unitFile, enabled, started, exitStatus>>

Enable ==
  /\ pc = "enable"
  /\ \E ok \in BOOLEAN :
       /\ calls' = Append(calls, Call("sudo", "enable", ok))
       /\ enabled' = (enabled \/ ok)
       /\ log' = IF ok
                   THEN log
                   ELSE Append(log, Error("Failed to enable service: %v"))
       /\ pc' = AfterStage("enable", ok)
  /\ UNCHANGED <<inputs, moduleName, resolveErr, binaryPath, buildErr, wrote,
                 binary, descriptor, unitFile, reloaded, started, exitStatus>>

Start ==
  /\ pc = "start"
  /\ \E ok \in BOOLEAN :
       /\ calls' = Append(calls, Call("sudo", "start", ok))
       /\ started' = (started \/ ok)
       /\ log' = Append(log,
                        IF ok
                          THEN Info("Service enabled and started successfully.")
                          ELSE Error("Failed to start service: %v"))
       /\ pc' = AfterStage("start", ok)
  /\ UNCHANGED <<inputs, moduleName, resolveErr, binaryPath, buildErr, wrote,
                 binary, descriptor, unitFile, reloaded, enabled, exitStatus>>

\* runProjectSetup returns, rootCmd.Execute returns nil, the process ends
Return ==
  /\ pc = "return"
  /\ exitStatus' = ExitStatus(FALSE, StepFailed)
  /\ pc' = "exited"
  /\ UNCHANGED <<inputs, moduleName, resolveErr, binaryPath, buildErr, wrote,
                 calls, log, binary, descriptor, unitFile, reloaded, enabled,
                 started>>

Next ==
  \/ ExecuteFail
  \/ ExecuteRun
  \/ Resolve
  \/ Build
  \/ Generate
  \/ Copy
  \/ Reload
  \/ Enable
  \/ Start
  \/ Return

Spec == Init /\ [][Next]_vars

\* ------------------------------------------------------ auxiliary notions
SudoCalls == SelectSeq(calls, LAMBDA c : c.prog = "sudo")

Attempted(op) == \E i \in 1..Len(calls) : calls[i].op = op

Failed(op) == \E i \in 1..Len(calls) : calls[i].op = op /\ ~calls[i].ok

Count(op) == Cardinality({i \in 1..Len(calls) : calls[i].op = op})

Stages == <<"cp", "daemon-reload", "enable", "start">>

Ops == {"build", "cp", "daemon-reload", "enable", "start"}

Logged(e) == \E i \in 1..Len(log) : log[i] = e

ErrorsLogged == Cardinality({i \in 1..Len(log) : log[i].level = "error"})

\* ----------------------------------------------------------------- claims

\* C1: when the install flag is unset, no sudo subprocess is ever invoked,
\* whatever the outcomes of resolution, build and descriptor write.
C1_NoSudoWithoutInstall ==
  ~installFlag => \A i \in 1..Len(calls) : calls[i].prog # "sudo"

C1_Witness ==
  /\ pc = "exited"
  /\ ~installFlag
  /\ wrote = "ok"
  /\ Attempted("build")

\* C2: the installer stages are attempted only in the order copy, reload,
\* enable, start, and each one only after the previous one succeeded.
C2_StagesInOrderAndGated ==
  /\ Len(SudoCalls) <= Len(Stages)
  /\ \A i \in 1..Len(SudoCalls) :
       /\ SudoCalls[i].op = Stages[i]
       /\ i < Len(SudoCalls) => SudoCalls[i].ok

C2_Witness ==
  /\ pc = "exited"
  /\ Failed("cp")
  /\ Len(SudoCalls) = 1

\* C3: steps are linear with early return: a failed resolution means the
\* build is never invoked; a failed resolution or build means no descriptor
\* write and no installer invocation, even with the install flag set; the
\* build runs only after a successful resolution and the descriptor is
\* written only after a successful build.
C3_LinearEarlyReturn ==
  /\ resolveErr \in {"open", "scan", "missing"} => ~Attempted("build")
  /\ (resolveErr \in {"open", "scan", "missing"} \/ buildErr \in {"run", "abs"})
       => wrote = "pending" /\ SudoCalls = <<>>
  /\ Attempted("build") => resolveErr = "none"
  /\ wrote # "pending" => buildErr = "none" /\ calls[1] = Call("go", "build", TRUE)

C3_Witness ==
  /\ pc = "exited"
  /\ installFlag
  /\ Failed("build")

\* C4: the resolved name is the final path segment of the second token of
\* the first line whose first whitespace-delimited token is the keyword;
\* with no such line resolution reports the missing declaration.
FirstToken(line) == IF Fields(line) = <<>> THEN <<>> ELSE Fields(line)[1]

KeywordLines(lines) == {i \in 1..Len(lines) : FirstToken(lines[i]) = Keyword}

LastSegment(p) == SubSeq(p, LastSlash(p) + 1, Len(p))

C4_FirstTokenRule ==
  (resolveErr # "pending" /\ access = "ok") =>
    IF KeywordLines(manifest) = {}
      THEN resolveErr = "missing"
      ELSE LET i == CHOOSE k \in KeywordLines(manifest) :
                      \A j \in KeywordLines(manifest) : k <= j
               f == Fields(manifest[i])
           IN Len(f) >= 2 =>
                resolveErr = "none" /\ moduleName = LastSegment(f[2])

\* C5: a manifest that reads without error and has no line starting with
\* the keyword fails with the declaration-missing kind and yields no name;
\* a manifest that cannot be opened fails with the file-access kind.
StartsWithKeyword(line) ==
  /\ Len(line) >= Len(Keyword)
  /\ \A k \in 1..Len(Keyword) : line[k] = Keyword[k]

C5_MissingDeclaration ==
  resolveErr # "pending" =>
    /\ (access = "ok" /\ \A i \in 1..Len(manifest) : ~StartsWithKeyword(manifest[i]))
         => resolveErr = "missing" /\ moduleName = <<>>
    /\ access = "missing" => resolveErr = "open" /\ moduleName = <<>>

C5_Witness ==
  /\ resolveErr = "missing"
  /\ access = "ok"
  /\ \E i \in 1..Len(manifest) : manifest[i] = LineIndented
  /\ \A i \in 1..Len(manifest) : ~StartsWithKeyword(manifest[i])

\* C6: the written descriptor is the fixed template with its substitutions
\* applied and nothing else changed.
Literals == {Lit1, Lit2, Lit3, Lit4, Lit5}

RECURSIVE RunsFrom(_, _, _)
RunsFrom(text, i, cur) ==
  IF i > Len(text)
    THEN <<cur>>
    ELSE IF text[i] \in Literals
           THEN <<cur>> \o RunsFrom(text, i + 1, <<>>)
           ELSE RunsFrom(text, i + 1, Append(cur, text[i]))

\* the substituted texts: what stands between consecutive template literals
Slots(text) ==
  LET runs == RunsFrom(text, 1, <<>>)
  IN SubSeq(runs, 2, Len(runs) - 1)

LiteralsOf(text) == SelectSeq(text, LAMBDA c : c \in Literals)

\* C6 as stated: five substitutions, the service name among them twice.
C6_FiveSubstitutions ==
  wrote = "ok" =>
    /\ LiteralsOf(descriptor.content) = <<Lit1, Lit2, Lit3, Lit4, Lit5>>
    /\ Len(Slots(descriptor.content)) = 5
    /\ \E i, j \in 1..5 :
         /\ i # j
         /\ Slots(descriptor.content)[i] = moduleName
         /\ Slots(descriptor.content)[j] = moduleName

\* C6 amended: exactly four substitutions, in order the service name (once),
\* the binary path, the user and the binary's directory.
C6_FourSubstitutions ==
  wrote = "ok" =>
    /\ descriptor.content =
         <<Lit1>> \o moduleName \o <<Lit2>> \o binaryPath \o <<Lit3>>
           \o user \o <<Lit4>> \o Dir(binaryPath) \o <<Lit5>>
    /\ Slots(descriptor.content) =
         <<moduleName, binaryPath, user, Dir(binaryPath)>>
    /\ binaryPath = Abs(Join(args[1], moduleName))

C6_Witness ==
  /\ pc = "exited"
  /\ wrote = "ok"
  /\ user # <<>>
  /\ Dir(binaryPath) # user

\* C7: no retries: every external invocation happens at most once in a run
\* and a failed invocation is the last invocation of the run.
C7_NoRetries ==
  /\ \A op \in Ops : Count(op) <= 1
  /\ \A i \in 1..Len(calls) : ~calls[i].ok => i = Len(calls)

C7_Witness ==
  /\ pc = "exited"
  /\ Failed("enable")
  /\ Len(calls) = 4

\* C8: a failed pipeline step is logged and the process still ends with
\* status 0; status 1 occurs only when the command setup fails, and then no
\* pipeline step has run.
StageError(op) ==
  IF op = "cp" THEN Error("Failed to copy service file to systemd: %v")
  ELSE IF op = "daemon-reload" THEN Error("Failed to reload systemd daemon: %v")
  ELSE IF op = "enable" THEN Error("Failed to enable service: %v")
  ELSE Error("Failed to start service: %v")

C8_ExitStatus ==
  /\ exitStatus = 1 =>
       /\ ~SetupOk
       /\ resolveErr = "pending"
       /\ calls = <<>>
       /\ wrote = "pending"
  /\ (pc = "exited" /\ StepFailed) => exitStatus = 0
  /\ resolveErr \in {"open", "scan", "missing"} => Logged(Error("Error: %v"))
  /\ buildErr \in {"run", "abs"}
       => Logged(Error("Failed to build the Go project: %v"))
  /\ \A i \in 1..Len(Stages) : Failed(Stages[i]) => Logged(StageError(Stages[i]))

C8_Witness ==
  /\ pc = "exited"
  /\ exitStatus = 0
  /\ Failed("daemon-reload")

\* C9: nothing is rolled back: a built binary, a written descriptor, a
\* copied unit file, a reload and an enable stay applied in every later
\* step, and the descriptor still exists once the unit file was copied.
C9_NoRollback ==
  [][ /\ binary => binary'
      /\ descriptor.exists => descriptor'.exists
      /\ wrote = "ok" => descriptor' = descriptor
      /\ unitFile.exists => unitFile' = unitFile
      /\ reloaded => reloaded'
      /\ enabled => enabled'
      /\ unitFile'.exists => descriptor'.exists ]_vars

C9_Witness ==
  /\ pc = "exited"
  /\ Failed("enable")
  /\ binary
  /\ wrote = "ok"
  /\ descriptor.exists
  /\ unitFile.exists
  /\ reloaded

\* C10: after a successful build the creation of the service file is logged
\* and, with the install flag set, the copy is attempted whether or not the
\* write succeeded; a write error adds no error to the log.
FailuresSoFar ==
  (IF pc = "exited" /\ ~SetupOk THEN 1 ELSE 0)
  + (IF resolveErr \in {"open", "scan", "missing"} THEN 1 ELSE 0)
  + (IF buildErr \in {"run", "abs"} THEN 1 ELSE 0)
  + Cardinality({i \in 1..Len(SudoCalls) : ~SudoCalls[i].ok})

C10_WriteErrorIgnored ==
  /\ wrote # "pending" => Logged(Info("Service file created at: %v"))
  /\ (wrote # "pending" /\ installFlag) => (pc = "copy" \/ Attempted("cp"))
  /\ ErrorsLogged = FailuresSoFar

C10_Witness ==
  /\ wrote = "openfail"
  /\ Attempted("cp")
  /\ ErrorsLogged = 0

====
